---- MODULE Spec2Model ----
(***************************************************************************)
(* CoreError, the unified error type of the client (src/src/errors.rs):    *)
(* the enum, its From conversions, its Display and Debug renderings and    *)
(* its cause().  Text is modelled as a sequence of one-character strings,  *)
(* so that formatting is concatenation and "contains" is a real substring  *)
(* test.  Option<T> is modelled as a sequence of length at most one.       *)
(***************************************************************************)
EXTENDS Integers, Sequences, FiniteSets, TLC

VARIABLES err, via, input, shown, debugged, caused

vars == <<err, via, input, shown, debugged, caused>>

\* Longest freeform message handed to From<&str> / From<String>.
MaxMsgLen == 2
\* Longest Display / Debug text of an external (subsystem) error value.
MaxTextLen == 1

\* Characters the bounded texts are built from: a letter, a line break and
\* a double quote (the last two are the ones escape_debug rewrites).
Chars == {"a", "\n", "\""}

Texts(n) == UNION {[1..k -> Chars] : k \in 0..n}

None == <<>>
Some(x) == <<x>>

\* ---- format-string literals of Display::fmt (src/src/errors.rs:175-218) ----
\* "Error while serialising/deserialising: "
Disp_EncodeDecodeError == <<"E","r","r","o","r"," ","w","h","i","l","e"," ","s","e","r","i","a","l","i","s","i","n","g","/","d","e","s","e","r","i","a","l","i","s","i","n","g",":"," ">>
\* "Asymmetric decryption failed"
Disp_AsymmetricDecipherFailure == <<"A","s","y","m","m","e","t","r","i","c"," ","d","e","c","r","y","p","t","i","o","n"," ","f","a","i","l","e","d">>
\* "Symmetric decryption failed"
Disp_SymmetricDecipherFailure == <<"S","y","m","m","e","t","r","i","c"," ","d","e","c","r","y","p","t","i","o","n"," ","f","a","i","l","e","d">>
\* "Received unexpected data"
Disp_ReceivedUnexpectedData == <<"R","e","c","e","i","v","e","d"," ","u","n","e","x","p","e","c","t","e","d"," ","d","a","t","a">>
\* "Received unexpected event"
Disp_ReceivedUnexpectedEvent == <<"R","e","c","e","i","v","e","d"," ","u","n","e","x","p","e","c","t","e","d"," ","e","v","e","n","t">>
\* "No such data found in local version cache"
Disp_VersionCacheMiss == <<"N","o"," ","s","u","c","h"," ","d","a","t","a"," ","f","o","u","n","d"," ","i","n"," ","l","o","c","a","l"," ","v","e","r","s","i","o","n"," ","c","a","c","h","e">>
\* "Cannot overwrite a root directory if it already exists"
Disp_RootDirectoryExists == <<"C","a","n","n","o","t"," ","o","v","e","r","w","r","i","t","e"," ","a"," ","r","o","o","t"," ","d","i","r","e","c","t","o","r","y"," ","i","f"," ","i","t"," ","a","l","r","e","a","d","y"," ","e","x","i","s","t","s">>
\* "Unable to obtain generator for random data"
Disp_RandomDataGenerationFailure == <<"U","n","a","b","l","e"," ","t","o"," ","o","b","t","a","i","n"," ","g","e","n","e","r","a","t","o","r"," ","f","o","r"," ","r","a","n","d","o","m"," ","d","a","t","a">>
\* "Forbidden operation requested"
Disp_OperationForbidden == <<"F","o","r","b","i","d","d","e","n"," ","o","p","e","r","a","t","i","o","n"," ","r","e","q","u","e","s","t","e","d">>
\* "Unexpected: "
Disp_Unexpected == <<"U","n","e","x","p","e","c","t","e","d",":"," ">>
\* "Data error -> "
Disp_DataError == <<"D","a","t","a"," ","e","r","r","o","r"," ","-",">"," ">>
\* "Unable to pack into or operate with size of Salt"
Disp_UnsupportedSaltSizeForPwHash == <<"U","n","a","b","l","e"," ","t","o"," ","p","a","c","k"," ","i","n","t","o"," ","o","r"," ","o","p","e","r","a","t","e"," ","w","i","t","h"," ","s","i","z","e"," ","o","f"," ","S","a","l","t">>
\* "Unable to complete computation for password hashing"
Disp_UnsuccessfulPwHash == <<"U","n","a","b","l","e"," ","t","o"," ","c","o","m","p","l","e","t","e"," ","c","o","m","p","u","t","a","t","i","o","n"," ","f","o","r"," ","p","a","s","s","w","o","r","d"," ","h","a","s","h","i","n","g">>
\* "Blocking operation was cancelled"
Disp_OperationAborted == <<"B","l","o","c","k","i","n","g"," ","o","p","e","r","a","t","i","o","n"," ","w","a","s"," ","c","a","n","c","e","l","l","e","d">>
\* "Self-encryption error: "
Disp_SelfEncryption == <<"S","e","l","f","-","e","n","c","r","y","p","t","i","o","n"," ","e","r","r","o","r",":"," ">>
\* "RequestTimeout"
Disp_RequestTimeout == <<"R","e","q","u","e","s","t","T","i","m","e","o","u","t">>
\* "Config file error: "
Disp_ConfigError == <<"C","o","n","f","i","g"," ","f","i","l","e"," ","e","r","r","o","r",":"," ">>
\* "Io error: "
Disp_IoError == <<"I","o"," ","e","r","r","o","r",":"," ">>
\* "QuicP2P error: "
Disp_QuicP2p == <<"Q","u","i","c","P","2","P"," ","e","r","r","o","r",":"," ">>

\* ---- format-string literals of Debug::fmt (src/src/errors.rs:130-173) ----
\* variant: a colon instead of the dash
Dbg_Separator_Colon == <<":"," ">>
\* " - "
Dbg_Separator == <<" ","-"," ">>
\* "CoreError::EncodeDecodeError -> "
Dbg_EncodeDecodeError == <<"C","o","r","e","E","r","r","o","r",":",":","E","n","c","o","d","e","D","e","c","o","d","e","E","r","r","o","r"," ","-",">"," ">>
\* "CoreError::AsymmetricDecipherFailure"
Dbg_AsymmetricDecipherFailure == <<"C","o","r","e","E","r","r","o","r",":",":","A","s","y","m","m","e","t","r","i","c","D","e","c","i","p","h","e","r","F","a","i","l","u","r","e">>
\* "CoreError::SymmetricDecipherFailure"
Dbg_SymmetricDecipherFailure == <<"C","o","r","e","E","r","r","o","r",":",":","S","y","m","m","e","t","r","i","c","D","e","c","i","p","h","e","r","F","a","i","l","u","r","e">>
\* "CoreError::ReceivedUnexpectedData"
Dbg_ReceivedUnexpectedData == <<"C","o","r","e","E","r","r","o","r",":",":","R","e","c","e","i","v","e","d","U","n","e","x","p","e","c","t","e","d","D","a","t","a">>
\* "CoreError::ReceivedUnexpectedEvent"
Dbg_ReceivedUnexpectedEvent == <<"C","o","r","e","E","r","r","o","r",":",":","R","e","c","e","i","v","e","d","U","n","e","x","p","e","c","t","e","d","E","v","e","n","t">>
\* "CoreError::VersionCacheMiss"
Dbg_VersionCacheMiss == <<"C","o","r","e","E","r","r","o","r",":",":","V","e","r","s","i","o","n","C","a","c","h","e","M","i","s","s">>
\* "CoreError::RootDirectoryExists"
Dbg_RootDirectoryExists == <<"C","o","r","e","E","r","r","o","r",":",":","R","o","o","t","D","i","r","e","c","t","o","r","y","E","x","i","s","t","s">>
\* "CoreError::RandomDataGenerationFailure"
Dbg_RandomDataGenerationFailure == <<"C","o","r","e","E","r","r","o","r",":",":","R","a","n","d","o","m","D","a","t","a","G","e","n","e","r","a","t","i","o","n","F","a","i","l","u","r","e">>
\* "CoreError::OperationForbidden"
Dbg_OperationForbidden == <<"C","o","r","e","E","r","r","o","r",":",":","O","p","e","r","a","t","i","o","n","F","o","r","b","i","d","d","e","n">>
\* "CoreError::Unexpected::{"
Dbg_Unexpected == <<"C","o","r","e","E","r","r","o","r",":",":","U","n","e","x","p","e","c","t","e","d",":",":","{">>
\* "CoreError::DataError -> "
Dbg_DataError == <<"C","o","r","e","E","r","r","o","r",":",":","D","a","t","a","E","r","r","o","r"," ","-",">"," ">>
\* "CoreError::UnsupportedSaltSizeForPwHash"
Dbg_UnsupportedSaltSizeForPwHash == <<"C","o","r","e","E","r","r","o","r",":",":","U","n","s","u","p","p","o","r","t","e","d","S","a","l","t","S","i","z","e","F","o","r","P","w","H","a","s","h">>
\* "CoreError::UnsuccessfulPwHash"
Dbg_UnsuccessfulPwHash == <<"C","o","r","e","E","r","r","o","r",":",":","U","n","s","u","c","c","e","s","s","f","u","l","P","w","H","a","s","h">>
\* "CoreError::OperationAborted"
Dbg_OperationAborted == <<"C","o","r","e","E","r","r","o","r",":",":","O","p","e","r","a","t","i","o","n","A","b","o","r","t","e","d">>
\* "CoreError::SelfEncryption -> "
Dbg_SelfEncryption == <<"C","o","r","e","E","r","r","o","r",":",":","S","e","l","f","E","n","c","r","y","p","t","i","o","n"," ","-",">"," ">>
\* "CoreError::RequestTimeout"
Dbg_RequestTimeout == <<"C","o","r","e","E","r","r","o","r",":",":","R","e","q","u","e","s","t","T","i","m","e","o","u","t">>
\* "CoreError::ConfigError -> "
Dbg_ConfigError == <<"C","o","r","e","E","r","r","o","r",":",":","C","o","n","f","i","g","E","r","r","o","r"," ","-",">"," ">>
\* variant: the IoError arm copied from the ConfigError arm
Dbg_IoError_Copied == <<"C","o","r","e","E","r","r","o","r",":",":","C","o","n","f","i","g","E","r","r","o","r"," ","-",">"," ">>
\* "CoreError::IoError -> "
Dbg_IoError == <<"C","o","r","e","E","r","r","o","r",":",":","I","o","E","r","r","o","r"," ","-",">"," ">>
\* "CoreError::QuicP2p -> "
Dbg_QuicP2p == <<"C","o","r","e","E","r","r","o","r",":",":","Q","u","i","c","P","2","p"," ","-",">"," ">>
\* "}"
Dbg_UnexpectedClose == <<"}">>

\* ---- identifiers of the enum's variants, spelled out (src/src/errors.rs:22-64) ----
\* "CoreError::"
TypePath == <<"C","o","r","e","E","r","r","o","r",":",":">>
VariantName ==
     "EncodeDecodeError" :> <<"E","n","c","o","d","e","D","e","c","o","d","e","E","r","r","o","r">>
  @@ "AsymmetricDecipherFailure" :> <<"A","s","y","m","m","e","t","r","i","c","D","e","c","i","p","h","e","r","F","a","i","l","u","r","e">>
  @@ "SymmetricDecipherFailure" :> <<"S","y","m","m","e","t","r","i","c","D","e","c","i","p","h","e","r","F","a","i","l","u","r","e">>
  @@ "ReceivedUnexpectedData" :> <<"R","e","c","e","i","v","e","d","U","n","e","x","p","e","c","t","e","d","D","a","t","a">>
  @@ "ReceivedUnexpectedEvent" :> <<"R","e","c","e","i","v","e","d","U","n","e","x","p","e","c","t","e","d","E","v","e","n","t">>
  @@ "VersionCacheMiss" :> <<"V","e","r","s","i","o","n","C","a","c","h","e","M","i","s","s">>
  @@ "RootDirectoryExists" :> <<"R","o","o","t","D","i","r","e","c","t","o","r","y","E","x","i","s","t","s">>
  @@ "RandomDataGenerationFailure" :> <<"R","a","n","d","o","m","D","a","t","a","G","e","n","e","r","a","t","i","o","n","F","a","i","l","u","r","e">>
  @@ "OperationForbidden" :> <<"O","p","e","r","a","t","i","o","n","F","o","r","b","i","d","d","e","n">>
  @@ "Unexpected" :> <<"U","n","e","x","p","e","c","t","e","d">>
  @@ "DataError" :> <<"D","a","t","a","E","r","r","o","r">>
  @@ "UnsupportedSaltSizeForPwHash" :> <<"U","n","s","u","p","p","o","r","t","e","d","S","a","l","t","S","i","z","e","F","o","r","P","w","H","a","s","h">>
  @@ "UnsuccessfulPwHash" :> <<"U","n","s","u","c","c","e","s","s","f","u","l","P","w","H","a","s","h">>
  @@ "OperationAborted" :> <<"O","p","e","r","a","t","i","o","n","A","b","o","r","t","e","d">>
  @@ "SelfEncryption" :> <<"S","e","l","f","E","n","c","r","y","p","t","i","o","n">>
  @@ "RequestTimeout" :> <<"R","e","q","u","e","s","t","T","i","m","e","o","u","t">>
  @@ "ConfigError" :> <<"C","o","n","f","i","g","E","r","r","o","r">>
  @@ "IoError" :> <<"I","o","E","r","r","o","r">>
  @@ "QuicP2p" :> <<"Q","u","i","c","P","2","p">>

\* "Couldn't send message to the channel: "
SendPrefix == <<"C","o","u","l","d","n","'","t"," ","s","e","n","d"," ","m","e","s","s","a","g","e"," ","t","o"," ","t","h","e"," ","c","h","a","n","n","e","l",":"," ">>
\* "send failed because receiver is gone"
SendDisconnectedText == <<"s","e","n","d"," ","f","a","i","l","e","d"," ","b","e","c","a","u","s","e"," ","r","e","c","e","i","v","e","r"," ","i","s"," ","g","o","n","e">>
\* "send failed because channel is full"
SendFullText == <<"s","e","n","d"," ","f","a","i","l","e","d"," ","b","e","c","a","u","s","e"," ","c","h","a","n","n","e","l"," ","i","s"," ","f","u","l","l">>

\* ------------------------------------------------------------------------
\* Values handed to this layer by its collaborators.
\* ------------------------------------------------------------------------

\* An error value of an external type: its type and what its own Display
\* and Debug implementations print.
ExternalError(type) == [type : {type}, display : Texts(MaxTextLen), debug : Texts(MaxTextLen)]

SerialisationError == ExternalError("bincode::Error")
SndError == ExternalError("safe_nd::Error")
SelfEncryptionError == ExternalError("SelfEncryptionError<SEStorageError>")
IoErrorValue == ExternalError("io::Error")
QuicP2pError == ExternalError("QuicP2pError")

\* serde_json::Error: classify() is Io exactly when the error wraps an
\* io::Error, and then its Display is that of the wrapped io::Error.
Category == {"Io", "Syntax", "Data", "Eof"}

SerdeJsonError ==
  {[type |-> "serde_json::Error", category |-> "Io", display |-> e.display, debug |-> g, io |-> Some(e)] :
      e \in IoErrorValue, g \in Texts(MaxTextLen)}
  \cup
  [type : {"serde_json::Error"}, category : Category \ {"Io"},
   display : Texts(MaxTextLen), debug : Texts(MaxTextLen), io : {None}]

classify(error) == error.category

\* futures::channel::mpsc::SendError: full or disconnected.
SendErrorDisplay(kind) == IF kind = "Full" THEN SendFullText ELSE SendDisconnectedText

SendError == {[type |-> "SendError", kind |-> k, display |-> SendErrorDisplay(k)] : k \in {"Full", "Disconnected"}}

RecvError == {[type |-> "RecvError"]}

\* <str as Debug>::fmt: the text in double quotes, with escape_debug applied.
RECURSIVE EscapeDebug(_)
EscapeDebug(s) ==
  IF s = <<>> THEN <<>>
  ELSE (CASE Head(s) = "\n" -> <<"\\", "n">>
          [] Head(s) = "\"" -> <<"\\", "\"">>
          [] Head(s) = "\\" -> <<"\\", "\\">>
          [] OTHER -> <<Head(s)>>) \o EscapeDebug(Tail(s))

StrDebug(s) == <<"\"">> \o EscapeDebug(s) \o <<"\"">>

\* A String value, with what Display and Debug print for it.
StringValue(s) == [type |-> "String", display |-> s, debug |-> StrDebug(s)]

\* ------------------------------------------------------------------------
\* pub enum CoreError
\* ------------------------------------------------------------------------

\* variant: the enum without RequestTimeout
SignalVariants_NoTimeout ==
  {"AsymmetricDecipherFailure", "SymmetricDecipherFailure", "ReceivedUnexpectedData",
   "ReceivedUnexpectedEvent", "VersionCacheMiss", "RootDirectoryExists",
   "RandomDataGenerationFailure", "OperationForbidden", "UnsupportedSaltSizeForPwHash",
   "UnsuccessfulPwHash", "OperationAborted"}

SignalVariants ==
  {"AsymmetricDecipherFailure", "SymmetricDecipherFailure", "ReceivedUnexpectedData",
   "ReceivedUnexpectedEvent", "VersionCacheMiss", "RootDirectoryExists",
   "RandomDataGenerationFailure", "OperationForbidden", "UnsupportedSaltSizeForPwHash",
   "UnsuccessfulPwHash", "OperationAborted", "RequestTimeout"}

\* variant |-> the values its single field can hold
PayloadOf ==
     "EncodeDecodeError" :> SerialisationError
  @@ "Unexpected" :> {StringValue(s) : s \in Texts(MaxMsgLen)}
  @@ "DataError" :> SndError
  @@ "SelfEncryption" :> SelfEncryptionError
  @@ "ConfigError" :> SerdeJsonError
  @@ "IoError" :> IoErrorValue
  @@ "QuicP2p" :> QuicP2pError

WrappingVariants == DOMAIN PayloadOf

Variants == SignalVariants \cup WrappingVariants

Signal(tag) == [tag |-> tag, payload |-> None]
Wrap(tag, p) == [tag |-> tag, payload |-> Some(p)]

CoreError ==
  {Signal(t) : t \in SignalVariants}
  \cup UNION {{Wrap(t, p) : p \in PayloadOf[t]} : t \in WrappingVariants}

\* ------------------------------------------------------------------------
\* From conversions
\* ------------------------------------------------------------------------

FromString(error) == Wrap("Unexpected", StringValue(error))

\* error.to_string() copies the text into an owned String
FromStr(error) == Wrap("Unexpected", StringValue(error))

\* format!("Couldn't send message to the channel: {}", error), then From<String>
\* variant: the failure's own text is left out of the message
FromSendError_NoText(error) == FromString(SendPrefix)

FromSendError(error) == FromString(SendPrefix \o error.display)

FromSerialisationError(error) == Wrap("EncodeDecodeError", error)

FromSndError(error) == Wrap("DataError", error)

\* variant: the receive failure is reported as a timeout
FromRecvError_Timeout(error) == Signal("RequestTimeout")

FromRecvError(error) == Signal("OperationAborted")

FromSelfEncryptionError(error) == Wrap("SelfEncryption", error)

\* variant: the io::Error is flattened into a message
FromIoError_AsMessage(error) == FromString(error.display)

FromIoError(error) == Wrap("IoError", error)

FromQuicP2pError(error) == Wrap("QuicP2p", error)

\* serde_json's From<Error> for io::Error, for an error of category Io:
\* the wrapped io::Error is taken out.
IntoIoError(error) == error.io[1]

\* variant: end-of-input is taken for an I/O failure
FromSerdeJsonError_EofAsIo(error) ==
  CASE classify(error) \in {"Io", "Eof"} -> Wrap("IoError", [type |-> "io::Error", display |-> error.display, debug |-> error.debug])
    [] classify(error) \in {"Syntax", "Data"} -> Wrap("ConfigError", error)

FromSerdeJsonError(error) ==
  CASE classify(error) = "Io" -> Wrap("IoError", IntoIoError(error))
    [] classify(error) \in {"Syntax", "Data", "Eof"} -> Wrap("ConfigError", error)

\* ------------------------------------------------------------------------
\* Renderings and cause
\* ------------------------------------------------------------------------

Payload(e) == e.payload[1]

DisplayFmt(e) ==
  CASE e.tag = "EncodeDecodeError" -> Disp_EncodeDecodeError \o Payload(e).display
    [] e.tag = "AsymmetricDecipherFailure" -> Disp_AsymmetricDecipherFailure
    [] e.tag = "SymmetricDecipherFailure" -> Disp_SymmetricDecipherFailure
    [] e.tag = "ReceivedUnexpectedData" -> Disp_ReceivedUnexpectedData
    [] e.tag = "ReceivedUnexpectedEvent" -> Disp_ReceivedUnexpectedEvent
    [] e.tag = "VersionCacheMiss" -> Disp_VersionCacheMiss
    [] e.tag = "RootDirectoryExists" -> Disp_RootDirectoryExists
    [] e.tag = "RandomDataGenerationFailure" -> Disp_RandomDataGenerationFailure
    [] e.tag = "OperationForbidden" -> Disp_OperationForbidden
    [] e.tag = "Unexpected" -> Disp_Unexpected \o Payload(e).display
    [] e.tag = "DataError" -> Disp_DataError \o Payload(e).display
    [] e.tag = "UnsupportedSaltSizeForPwHash" -> Disp_UnsupportedSaltSizeForPwHash
    [] e.tag = "UnsuccessfulPwHash" -> Disp_UnsuccessfulPwHash
    [] e.tag = "OperationAborted" -> Disp_OperationAborted
    [] e.tag = "SelfEncryption" -> Disp_SelfEncryption \o Payload(e).display
    [] e.tag = "RequestTimeout" -> Disp_RequestTimeout
    [] e.tag = "ConfigError" -> Disp_ConfigError \o Payload(e).display
    [] e.tag = "IoError" -> Disp_IoError \o Payload(e).display
    [] e.tag = "QuicP2p" -> Disp_QuicP2p \o Payload(e).display

\* self.to_string() runs Display::fmt
to_string(e) == DisplayFmt(e)

DebugFmt(e) ==
  to_string(e) \o Dbg_Separator \o
  (CASE e.tag = "EncodeDecodeError" -> Dbg_EncodeDecodeError \o Payload(e).debug
     [] e.tag = "AsymmetricDecipherFailure" -> Dbg_AsymmetricDecipherFailure
     [] e.tag = "SymmetricDecipherFailure" -> Dbg_SymmetricDecipherFailure
     [] e.tag = "ReceivedUnexpectedData" -> Dbg_ReceivedUnexpectedData
     [] e.tag = "ReceivedUnexpectedEvent" -> Dbg_ReceivedUnexpectedEvent
     [] e.tag = "VersionCacheMiss" -> Dbg_VersionCacheMiss
     [] e.tag = "RootDirectoryExists" -> Dbg_RootDirectoryExists
     [] e.tag = "RandomDataGenerationFailure" -> Dbg_RandomDataGenerationFailure
     [] e.tag = "OperationForbidden" -> Dbg_OperationForbidden
     [] e.tag = "Unexpected" -> Dbg_Unexpected \o Payload(e).debug \o Dbg_UnexpectedClose
     [] e.tag = "DataError" -> Dbg_DataError \o Payload(e).debug
     [] e.tag = "UnsupportedSaltSizeForPwHash" -> Dbg_UnsupportedSaltSizeForPwHash
     [] e.tag = "UnsuccessfulPwHash" -> Dbg_UnsuccessfulPwHash
     [] e.tag = "OperationAborted" -> Dbg_OperationAborted
     [] e.tag = "SelfEncryption" -> Dbg_SelfEncryption \o Payload(e).debug
     [] e.tag = "RequestTimeout" -> Dbg_RequestTimeout
     [] e.tag = "ConfigError" -> Dbg_ConfigError \o Payload(e).debug
     [] e.tag = "IoError" -> Dbg_IoError \o Payload(e).debug
     [] e.tag = "QuicP2p" -> Dbg_QuicP2p \o Payload(e).debug)

cause(e) ==
  CASE e.tag = "EncodeDecodeError" -> Some(Payload(e))
    [] e.tag = "SelfEncryption" -> Some(Payload(e))
    [] e.tag = "DataError" -> Some(Payload(e))
    [] e.tag = "QuicP2p" -> Some(Payload(e))
    [] OTHER -> None

\* ------------------------------------------------------------------------
\* The state machine: a value is built (by a conversion or by naming a
\* variant), then rendered and inspected.
\* ------------------------------------------------------------------------

Init ==
  /\ err = None
  /\ via = "none"
  /\ input = None
  /\ shown = None
  /\ debugged = None
  /\ caused = None

\* A behaviour follows one value from the point it is built: values are
\* immutable and independent of each other.  Nothing has been rendered or
\* read from a fresh value yet.
Built(e, how, x) ==
  /\ err' = Some(e)
  /\ via' = how
  /\ input' = x
  /\ shown' = None
  /\ debugged' = None
  /\ caused' = None

ConvertStr ==
  /\ err = None
  /\ \E s \in Texts(MaxMsgLen) : Built(FromStr(s), "From<&str>", Some(StringValue(s)))

ConvertString ==
  /\ err = None
  /\ \E s \in Texts(MaxMsgLen) : Built(FromString(s), "From<String>", Some(StringValue(s)))

ConvertSendError ==
  /\ err = None
  /\ \E x \in SendError : Built(FromSendError(x), "From<SendError>", Some(x))

ConvertSerialisationError ==
  /\ err = None
  /\ \E x \in SerialisationError : Built(FromSerialisationError(x), "From<SerialisationError>", Some(x))

ConvertSndError ==
  /\ err = None
  /\ \E x \in SndError : Built(FromSndError(x), "From<SndError>", Some(x))

ConvertRecvError ==
  /\ err = None
  /\ \E x \in RecvError : Built(FromRecvError(x), "From<mpsc::RecvError>", Some(x))

ConvertSelfEncryptionError ==
  /\ err = None
  /\ \E x \in SelfEncryptionError : Built(FromSelfEncryptionError(x), "From<SelfEncryptionError>", Some(x))

ConvertIoError ==
  /\ err = None
  /\ \E x \in IoErrorValue : Built(FromIoError(x), "From<io::Error>", Some(x))

ConvertQuicP2pError ==
  /\ err = None
  /\ \E x \in QuicP2pError : Built(FromQuicP2pError(x), "From<QuicP2pError>", Some(x))

ConvertSerdeJsonError ==
  /\ err = None
  /\ \E x \in SerdeJsonError : Built(FromSerdeJsonError(x), "From<serde_json::Error>", Some(x))

\* the client's own code names a variant directly
Construct ==
  /\ err = None
  /\ \E e \in CoreError : Built(e, "variant", None)

Display ==
  /\ err # None
  /\ shown = None
  /\ shown' = Some(DisplayFmt(err[1]))
  /\ UNCHANGED <<err, via, input, debugged, caused>>

Debug ==
  /\ err # None
  /\ debugged = None
  /\ debugged' = Some(DebugFmt(err[1]))
  /\ UNCHANGED <<err, via, input, shown, caused>>

Cause ==
  /\ err # None
  /\ caused = None
  /\ caused' = Some(cause(err[1]))
  /\ UNCHANGED <<err, via, input, shown, debugged>>

Next ==
  \/ ConvertStr
  \/ ConvertString
  \/ ConvertSendError
  \/ ConvertSerialisationError
  \/ ConvertSndError
  \/ ConvertRecvError
  \/ ConvertSelfEncryptionError
  \/ ConvertIoError
  \/ ConvertQuicP2pError
  \/ ConvertSerdeJsonError
  \/ Construct
  \/ Display
  \/ Debug
  \/ Cause

Spec == Init /\ [][Next]_vars

TypeOK ==
  /\ err = None \/ (Len(err) = 1 /\ err[1].tag \in Variants
                      /\ (err[1].payload = None <=> err[1].tag \in SignalVariants))
  /\ shown = None \/ Len(shown) = 1
  /\ debugged = None \/ Len(debugged) = 1
  /\ caused = None \/ Len(caused) = 1

\* ------------------------------------------------------------------------
\* Properties
\* ------------------------------------------------------------------------

IsPrefix(p, s) == Len(p) <= Len(s) /\ SubSeq(s, 1, Len(p)) = p

IsSuffix(p, s) == Len(p) <= Len(s) /\ SubSeq(s, Len(s) - Len(p) + 1, Len(s)) = p

IsSubstring(p, s) == \E i \in 0..(Len(s) - Len(p)) : SubSeq(s, i + 1, i + Len(p)) = p

HasChar(s, c) == \E i \in 1..Len(s) : s[i] = c

\* "CoreError::<VariantName>"
Ident(tag) == TypePath \o VariantName[tag]

FromConversions ==
  {"From<&str>", "From<String>", "From<SendError>", "From<SerialisationError>",
   "From<SndError>", "From<mpsc::RecvError>", "From<SelfEncryptionError>",
   "From<io::Error>", "From<QuicP2pError>", "From<serde_json::Error>"}

\* the conversions whose input is a subsystem error that the result wraps
WrappingConversions ==
  {"From<SerialisationError>", "From<SndError>", "From<SelfEncryptionError>",
   "From<io::Error>", "From<QuicP2pError>", "From<serde_json::Error>"}

\* the variants that hold an external error value
ExternalWrapping == {"EncodeDecodeError", "DataError", "SelfEncryption", "ConfigError", "IoError", "QuicP2p"}

\* C1: cause(e) is the payload of e exactly when e is one of the six
\* variants that wrap an external error value, and is nothing otherwise.
C1_CauseIsPayload ==
  caused # None =>
    caused[1] = (IF err[1].tag \in ExternalWrapping THEN err[1].payload ELSE None)

\* C2: for every wrapping conversion, CoreError::from(x) followed by
\* cause() yields a value equal to x.
C2_CauseRoundTrip ==
  (caused # None /\ via \in WrappingConversions) => caused[1] = input

\* C3: the conversion of a serde_json error is decided by classify() alone:
\* Io gives IoError; Syntax, Data and Eof give ConfigError; nothing else
\* is produced.
C3_ParseErrorClassified ==
  via = "From<serde_json::Error>" =>
    /\ err[1].tag \in {"IoError", "ConfigError"}
    /\ classify(input[1]) = "Io" => err[1].tag = "IoError"
    /\ classify(input[1]) \in {"Syntax", "Data", "Eof"} => err[1].tag = "ConfigError"

C3_Witness ==
  /\ via = "From<serde_json::Error>"
  /\ classify(input[1]) = "Io"
  /\ input[1].debug # <<>>
  /\ err[1].tag = "IoError"

\* C4 as stated: among the From conversions, only those from &str and
\* String produce Unexpected.
C4_OnlyTextGivesUnexpected ==
  (via \in FromConversions /\ err[1].tag = "Unexpected") =>
    via \in {"From<&str>", "From<String>"}

\* C4 as amended: among the From conversions, only those from &str, String
\* and SendError produce Unexpected; no conversion of an error that has a
\* wrapping variant, nor that of RecvError, does.
C4_UnexpectedOrigins ==
  (via \in FromConversions /\ err[1].tag = "Unexpected") =>
    via \in {"From<&str>", "From<String>", "From<SendError>"}

C4_Witness ==
  /\ via = "From<SendError>"
  /\ err[1].tag = "Unexpected"

\* C5: a SendError converts to Unexpected, and its Display text is a
\* substring of the stored message and of the Display rendering.
C5_SendErrorEmbedded ==
  via = "From<SendError>" =>
    /\ err[1].tag = "Unexpected"
    /\ IsSubstring(input[1].display, Payload(err[1]).display)
    /\ shown # None => IsSubstring(input[1].display, shown[1])

C5_Witness ==
  /\ via = "From<SendError>"
  /\ input[1].kind = "Disconnected"
  /\ shown # None

\* C6: a RecvError converts to the payload-free OperationAborted, and no
\* other From conversion produces OperationAborted.
C6_RecvErrorAborts ==
  /\ via = "From<mpsc::RecvError>" => err[1] = Signal("OperationAborted")
  /\ (via \in FromConversions /\ err[1].tag = "OperationAborted") => via = "From<mpsc::RecvError>"

C6_Witness ==
  /\ via = "From<mpsc::RecvError>"
  /\ err[1].tag = "OperationAborted"
  /\ err[1].payload = None

\* C7: the Display rendering of every value is non-empty and contains no
\* line break.
C7_DisplaySingleLine ==
  shown # None => (shown[1] # <<>> /\ ~HasChar(shown[1], "\n"))

\* what Debug::fmt puts between the identifier and the payload, and after it
Connector(tag) == IF tag = "Unexpected" THEN <<":", ":", "{">> ELSE <<" ", "-", ">", " ">>

Closer(tag) == IF tag = "Unexpected" THEN <<"}">> ELSE <<>>

\* identifier, then the payload's Debug text if there is a payload
IdentThenPayload(e) ==
  Ident(e.tag) \o (IF e.payload = None THEN <<>> ELSE Payload(e).debug)

\* C8 as stated: the Debug rendering is the identifier followed by the
\* payload's Debug rendering, the identifier alone for a signal variant;
\* it contains its own category name and no other variant's.
C8_DebugIsIdentifier ==
  debugged # None =>
    /\ debugged[1] = IdentThenPayload(err[1])
    /\ \A v \in Variants : IsSubstring(Ident(v), debugged[1]) <=> v = err[1].tag

\* C8 as amended: the Debug rendering ends with the identifier, followed
\* for a payload-carrying variant by " -> " and the payload's Debug
\* rendering (for Unexpected, by the payload's Debug rendering within
\* "::{" and "}"); what precedes the identifier is the Display rendering
\* and " - ".  The rendering contains its own category name, and that of a
\* signal variant contains no other variant's.
C8_DebugEndsWithIdentifier ==
  debugged # None =>
    LET e == err[1]
        tail == IF e.payload = None THEN Ident(e.tag)
                ELSE Ident(e.tag) \o Connector(e.tag) \o Payload(e).debug \o Closer(e.tag)
    IN /\ IsSuffix(tail, debugged[1])
       /\ Len(debugged[1]) > Len(tail)
       /\ IsSubstring(Ident(e.tag), debugged[1])
       /\ e.payload = None =>
            \A v \in Variants \ {e.tag} : ~IsSubstring(Ident(v), debugged[1])

C8_Witness ==
  /\ debugged # None
  /\ err[1].tag = "IoError"
  /\ Payload(err[1]).debug # <<>>

\* the categories of the variant catalogue
Catalogue ==
  {"Encode/Decode failure", "Asymmetric decrypt failure", "Symmetric decrypt failure",
   "Unexpected data received", "Unexpected event received", "Version cache miss",
   "Root directory exists", "Random generation failure", "Operation forbidden",
   "Unexpected/logic error", "Data-layer error", "Unsupported salt size",
   "Password-hash failure", "Operation aborted", "Self-encryption failure",
   "Request timeout", "Configuration error", "I/O error", "Transport error"}

CategoryOf ==
     "EncodeDecodeError" :> "Encode/Decode failure"
  @@ "AsymmetricDecipherFailure" :> "Asymmetric decrypt failure"
  @@ "SymmetricDecipherFailure" :> "Symmetric decrypt failure"
  @@ "ReceivedUnexpectedData" :> "Unexpected data received"
  @@ "ReceivedUnexpectedEvent" :> "Unexpected event received"
  @@ "VersionCacheMiss" :> "Version cache miss"
  @@ "RootDirectoryExists" :> "Root directory exists"
  @@ "RandomDataGenerationFailure" :> "Random generation failure"
  @@ "OperationForbidden" :> "Operation forbidden"
  @@ "Unexpected" :> "Unexpected/logic error"
  @@ "DataError" :> "Data-layer error"
  @@ "UnsupportedSaltSizeForPwHash" :> "Unsupported salt size"
  @@ "UnsuccessfulPwHash" :> "Password-hash failure"
  @@ "OperationAborted" :> "Operation aborted"
  @@ "SelfEncryption" :> "Self-encryption failure"
  @@ "RequestTimeout" :> "Request timeout"
  @@ "ConfigError" :> "Configuration error"
  @@ "IoError" :> "I/O error"
  @@ "QuicP2p" :> "Transport error"

\* the variants correspond one for one to the catalogue's categories
MatchesCatalogue ==
  /\ \A v \in Variants : v \in DOMAIN CategoryOf
  /\ {CategoryOf[v] : v \in Variants} = Catalogue
  /\ \A v, w \in Variants : CategoryOf[v] = CategoryOf[w] => v = w

\* C9 as stated: the enum has exactly eighteen variants, matching the
\* catalogue one for one.
C9_EighteenCategories ==
  err # None =>
    (err[1].tag \in Variants /\ Cardinality(Variants) = 18 /\ MatchesCatalogue)

\* C9 as amended: the enum has exactly nineteen variants, matching the
\* catalogue one for one.
C9_NineteenCategories ==
  err # None =>
    (err[1].tag \in Variants /\ Cardinality(Variants) = 19 /\ MatchesCatalogue)

C9_Witness ==
  /\ err # None
  /\ err[1].tag = "RequestTimeout"

====
